---- MODULE Spec2Model ----
(***************************************************************************)
(* Model of modules/cache_manager.py of gobiceb/ISAPrj: CacheManager       *)
(* (memory and file backends), DistributedCacheManager (Redis tier in      *)
(* front of the file backend), CacheWarmer and the callers' view of        *)
(* get_or_fetch and clear_cache; and of the analytics on flow series:      *)
(* newsletter_engine.detect_surge_alerts and                               *)
(* data_processor.calculate_flow_metrics.  Time is counted in whole        *)
(* minutes by the cache and in whole hours by the analytics.               *)
(***************************************************************************)
EXTENDS Integers, Sequences, FiniteSets, TLC

\* ------------------------------------------------------------------ bounds
MaxTime == 2      \* the clock runs over 0..MaxTime minutes
MaxCount == 3     \* no get_or_fetch once hits + misses + expires reached this

\* ------------------------------------------------------------ value spaces
Managers == {"m1", "m2"}              \* manager instances that may be constructed
Keys == {"k1", "k2"}                  \* logical cache keys used by the callers
\* Payloads a fetch function returns: a tuple and a pandas DataFrame.
Payloads == {"t1", "df"}
Raise == "Raise"                      \* the fetch function raises
FetchOutcomes == Payloads \cup {Raise}
DefaultTTLs == {0, 2}                 \* cache_ttl_minutes given to the constructor
NoneTTL == -1                         \* ttl_minutes=None (parameter omitted)
TTLOverrides == {NoneTTL, 0, 1}       \* ttl_minutes given to get_or_fetch
WriteFaults == {"ok", "open", "dump"} \* file write: succeeds, open() raises, pickle.dump raises

\* hashlib.md5(key.encode()).hexdigest(): injective on the keys in use
get_cache_key(key) == "md5_" \o key
CacheKeys == {get_cache_key(k) : k \in Keys}

\* A cache entry is the tuple (data, timestamp); None is "no entry".
None == [data |-> "None", timestamp |-> -1]
\* A .pkl file truncated by open(...,'wb') whose pickle.dump did not complete.
Corrupt == [data |-> "Corrupt", timestamp |-> -1]
Entry(d, t) == [data |-> d, timestamp |-> t]

\* A manager that has not been constructed.
NoManager == [backend |-> "none", cache_ttl |-> 0, distributed |-> FALSE, redis_client |-> FALSE]
ZeroStats == [hits |-> 0, misses |-> 0, expires |-> 0]
\* No call has been made yet.
NoCall == [op |-> "none", mgr |-> "none", key |-> "none", force |-> FALSE,
           ttl_minutes |-> NoneTTL, fetch |-> "none", wfault |-> "ok",
           redis_ok |-> TRUE, result |-> "none", value |-> "None",
           removed |-> {}]

VARIABLES
    now,           \* datetime.now(), in minutes
    mgr,           \* per instance: backend, cache_ttl, class, redis_client
    memory_cache,  \* per instance: self.memory_cache
    stats,         \* per instance: self.stats
    files,         \* cache_dir/<cache_key>.pkl, shared by all instances
    redis,         \* the Redis server's keys
    last           \* the most recent call: op, instance, key, force_refresh,
                   \* ttl_minutes, what fetch_func did ("none": not invoked,
                   \* "Raise", or the payload it returned), how the file write
                   \* ended, whether Redis answered, what the caller got, the
                   \* entries a clear removed

VARIABLES
    warming_schedule,  \* CacheWarmer.warming_schedule, in insertion order
    warm               \* the warm_cache() invocation in progress or just ended

VARIABLES
    flows,         \* the flow series handed to the analytics, and their parameters
    report         \* what the analytics returned

VARIABLES
    inflight       \* per instance: the get_or_fetch call it is in the middle
                   \* of, when the calls of two instances interleave

cache_vars == <<now, mgr, memory_cache, stats, files, redis, last>>
warmer_vars == <<warming_schedule, warm>>
flow_vars == <<flows, report>>
conc_vars == <<inflight>>
vars == <<now, mgr, memory_cache, stats, files, redis, last,
          warming_schedule, warm, flows, report, inflight>>

\* ------------------------------------------------------ JSON / ISO encoding
\* json.dumps raises TypeError on a DataFrame.
JsonSerializable(d) == d # "df"
\* json.loads(json.dumps(d)): a tuple comes back as a list.
JsonRoundTrip(d) == IF d = "t1" THEN "l1" ELSE d
\* timestamp.isoformat() and datetime.fromisoformat()
isoformat(t) == <<"iso", t>>
fromisoformat(s) == s[2]

NoRedisKey == [data |-> "None", timestamp |-> <<"iso", -1>>, expire_at |-> -1]

\* redis_client.get(key): a key set with setex is gone once its time is up.
RedisGet(ck) ==
    IF redis[ck] # NoRedisKey /\ now < redis[ck].expire_at
    THEN redis[ck] ELSE NoRedisKey

\* --------------------------------------------------------- _get_from_cache
\* CacheManager._get_from_cache
BaseGetFromCache(m, ck) ==
    IF mgr[m].backend = "memory" THEN memory_cache[m][ck]
    ELSE IF mgr[m].backend = "file"
         THEN IF files[ck] = None THEN None           \* not cache_file.exists()
              ELSE IF files[ck] = Corrupt THEN None   \* pickle.load raises
              ELSE files[ck]
    ELSE None

\* DistributedCacheManager._get_from_cache
DistGetFromCache(m, ck, redis_ok) ==
    IF mgr[m].redis_client /\ redis_ok /\ RedisGet(ck) # NoRedisKey
    THEN Entry(RedisGet(ck).data, fromisoformat(RedisGet(ck).timestamp))
    ELSE BaseGetFromCache(m, ck)

GetFromCache(m, ck, redis_ok) ==
    IF mgr[m].distributed THEN DistGetFromCache(m, ck, redis_ok)
    ELSE BaseGetFromCache(m, ck)

\* --------------------------------------------------------- _set_in_cache
\* CacheManager._set_in_cache, memory backend: self.memory_cache[key] = entry
MemoryAfterSet(m, ck, data) ==
    IF mgr[m].backend = "memory"
    THEN [memory_cache EXCEPT ![m][ck] = Entry(data, now)]
    ELSE memory_cache

\* CacheManager._set_in_cache, file backend: open(cache_file, 'wb') truncates
\* the file, pickle.dump fills it; an exception of either is caught and logged.
FilesAfterSet(m, ck, data, wfault) ==
    IF mgr[m].backend = "file"
    THEN CASE wfault = "ok"   -> [files EXCEPT ![ck] = Entry(data, now)]
           [] wfault = "open" -> files
           [] wfault = "dump" -> [files EXCEPT ![ck] = Corrupt]
    ELSE files

\* DistributedCacheManager._set_in_cache, Redis part: setex(key,
\* int(self.cache_ttl.total_seconds()), json.dumps(cache_dict)); json.dumps
\* raises on an unserializable payload, setex on an unreachable server or an
\* expire time of 0; the exception is caught and logged.
RedisAfterSet(m, ck, data, redis_ok) ==
    IF mgr[m].distributed /\ mgr[m].redis_client /\ redis_ok
       /\ JsonSerializable(data) /\ mgr[m].cache_ttl > 0
    THEN [redis EXCEPT ![ck] = [data |-> JsonRoundTrip(data),
                                timestamp |-> isoformat(now),
                                expire_at |-> now + mgr[m].cache_ttl]]
    ELSE redis

\* ------------------------------------------------------------ get_or_fetch
\* ttl = timedelta(minutes=ttl_minutes) if ttl_minutes else self.cache_ttl
EffectiveTTL(m, ttl_minutes) ==
    IF ttl_minutes = NoneTTL \/ ttl_minutes = 0 THEN mgr[m].cache_ttl
    ELSE ttl_minutes

\* datetime.now() - timestamp < ttl
IsFresh(entry, ttl) == now - entry.timestamp < ttl

\* Lookup without the `if not force_refresh` test: a forced call is served
\* from the cache like any other.
LookupIgnoringForce(m, key, force, ttl_minutes, redis_ok) ==
    LET cached == GetFromCache(m, get_cache_key(key), redis_ok) IN
    IF cached = None THEN "none"
    ELSE IF IsFresh(cached, EffectiveTTL(m, ttl_minutes)) THEN "fresh"
    ELSE "expired"

\* What the `if not force_refresh` block finds.
Lookup(m, key, force, ttl_minutes, redis_ok) ==
    LET cached == GetFromCache(m, get_cache_key(key), redis_ok) IN
    IF force THEN "skipped"
    ELSE IF cached = None THEN "none"
    ELSE IF IsFresh(cached, EffectiveTTL(m, ttl_minutes)) THEN "fresh"
    ELSE "expired"

\* if cached_data is not None and age < ttl: hits += 1; return data
CacheHit(m, call, cached) ==
    /\ stats' = [stats EXCEPT ![m].hits = @ + 1]
    /\ last' = [call EXCEPT !.value = cached.data]
    /\ UNCHANGED <<memory_cache, files, redis>>

\* FetchRaises without the stale fallback: the handler always re-raises.
FetchRaisesNoFallback(m, call, cached, expired) ==
    /\ stats' = [stats EXCEPT ![m].expires = @ + expired]
    /\ last' = [call EXCEPT !.fetch = Raise, !.result = "raise"]
    /\ UNCHANGED <<memory_cache, files, redis>>

\* FetchRaises with the final `raise` missing: without an entry the handler
\* falls off its end and the call returns None.
FetchRaisesSwallowed(m, call, cached, expired) ==
    /\ stats' = [stats EXCEPT ![m].expires = @ + expired]
    /\ last' = IF cached # None
               THEN [call EXCEPT !.fetch = Raise, !.value = cached.data]
               ELSE [call EXCEPT !.fetch = Raise]
    /\ UNCHANGED <<memory_cache, files, redis>>

\* FetchRaises where a forced refresh does not fall back on the cache.
FetchRaisesForcedPropagates(m, call, cached, expired) ==
    /\ stats' = [stats EXCEPT ![m].expires = @ + expired]
    /\ last' = IF cached # None /\ ~call.force
               THEN [call EXCEPT !.fetch = Raise, !.value = cached.data]
               ELSE [call EXCEPT !.fetch = Raise, !.result = "raise"]
    /\ UNCHANGED <<memory_cache, files, redis>>

\* FetchRaises where the handler drops the entry it has just served.
FetchRaisesEvicting(m, call, cached, expired) ==
    /\ stats' = [stats EXCEPT ![m].expires = @ + expired]
    /\ last' = IF cached # None
               THEN [call EXCEPT !.fetch = Raise, !.value = cached.data]
               ELSE [call EXCEPT !.fetch = Raise, !.result = "raise"]
    /\ memory_cache' = IF mgr[m].backend = "memory"
                       THEN [memory_cache EXCEPT ![m][get_cache_key(call.key)] = None]
                       ELSE memory_cache
    /\ files' = IF mgr[m].backend = "file"
                THEN [files EXCEPT ![get_cache_key(call.key)] = None]
                ELSE files
    /\ UNCHANGED redis

\* FetchRaises that counts the stale payload it serves as a hit.
FetchRaisesCountingHit(m, call, cached, expired) ==
    /\ stats' = [stats EXCEPT ![m].expires = @ + expired,
                              ![m].hits = @ + (IF cached # None THEN 1 ELSE 0)]
    /\ last' = IF cached # None
               THEN [call EXCEPT !.fetch = Raise, !.value = cached.data]
               ELSE [call EXCEPT !.fetch = Raise, !.result = "raise"]
    /\ UNCHANGED <<memory_cache, files, redis>>

\* except Exception: cached_data = self._get_from_cache(cache_key); return
\* cached_data[0] if there is an entry, else re-raise.  `expired` is 1 when
\* the call had counted an expiration before fetching.
FetchRaises(m, call, cached, expired) ==
    /\ stats' = [stats EXCEPT ![m].expires = @ + expired]
    /\ last' = IF cached # None
               THEN [call EXCEPT !.fetch = Raise, !.value = cached.data]
               ELSE [call EXCEPT !.fetch = Raise, !.result = "raise"]
    /\ UNCHANGED <<memory_cache, files, redis>>

\* FetchAndStore with a _set_in_cache that does not catch: the exception of
\* a failed write reaches the handler of get_or_fetch, which serves the old
\* entry if it can still read one and re-raises otherwise.
FetchAndStoreUnguarded(m, call, data, wfault, redis_ok, expired) ==
    LET ck     == get_cache_key(call.key)
        after  == FilesAfterSet(m, ck, data, wfault)
        cached == IF after[ck] = Corrupt THEN None ELSE after[ck]
    IN
    /\ memory_cache' = MemoryAfterSet(m, ck, data)
    /\ files' = after
    /\ redis' = RedisAfterSet(m, ck, data, redis_ok)
    /\ IF wfault = "ok"
       THEN /\ stats' = [stats EXCEPT ![m].expires = @ + expired, ![m].misses = @ + 1]
            /\ last' = [call EXCEPT !.fetch = data, !.value = data]
       ELSE /\ stats' = [stats EXCEPT ![m].expires = @ + expired]
            /\ last' = IF cached # None
                       THEN [call EXCEPT !.fetch = data, !.value = cached.data]
                       ELSE [call EXCEPT !.fetch = data, !.result = "raise"]

\* data = fetch_func(); self._set_in_cache(cache_key, data, datetime.now());
\* self.stats['misses'] += 1; return data
FetchAndStore(m, call, data, wfault, redis_ok, expired) ==
    LET ck == get_cache_key(call.key) IN
    /\ memory_cache' = MemoryAfterSet(m, ck, data)
    /\ files' = FilesAfterSet(m, ck, data, wfault)
    /\ redis' = RedisAfterSet(m, ck, data, redis_ok)
    /\ stats' = [stats EXCEPT ![m].expires = @ + expired, ![m].misses = @ + 1]
    /\ last' = [call EXCEPT !.fetch = data, !.value = data]

\* CacheManager.get_or_fetch(key, fetch_func, force_refresh, ttl_minutes),
\* where fetch_func() ends as `outcome`, the file write as `wfault` and the
\* Redis server is reachable during the call iff redis_ok.
GetOrFetch(m, key, outcome, force, ttl_minutes, wfault, redis_ok) ==
    /\ mgr[m].backend # "none"
    /\ stats[m].hits + stats[m].misses + stats[m].expires < MaxCount
    /\ ~(mgr[m].distributed /\ mgr[m].redis_client) => redis_ok
    /\ mgr[m].backend # "file" => wfault = "ok"
    \* ttl is read only inside `if not force_refresh`: a forced call has none
    /\ force => ttl_minutes = NoneTTL
    /\ \E cached \in {GetFromCache(m, get_cache_key(key), redis_ok)},
          found \in {Lookup(m, key, force, ttl_minutes, redis_ok)} :
         LET expired == IF found = "expired" THEN 1 ELSE 0
             call    == [op |-> "get", mgr |-> m, key |-> key, force |-> force,
                         ttl_minutes |-> ttl_minutes, fetch |-> "none",
                         wfault |-> wfault, redis_ok |-> redis_ok,
                         result |-> "return", value |-> "None",
                         removed |-> {}]
         IN
         \* a write fault only shows where a write is attempted
         /\ (found = "fresh" \/ outcome = Raise) => wfault = "ok"
         /\ IF found = "fresh" THEN CacheHit(m, call, cached)
            ELSE IF outcome = Raise THEN FetchRaises(m, call, cached, expired)
            ELSE FetchAndStore(m, call, outcome, wfault, redis_ok, expired)
    /\ UNCHANGED <<now, mgr>>

\* ------------------------------------------------------------- clear_cache
\* self.memory_cache.pop(cache_key, None)
MemoryAfterClear(m, ck) ==
    IF mgr[m].backend = "memory"
    THEN [memory_cache EXCEPT ![m][ck] = None]
    ELSE memory_cache

\* FilesAfterClear unlinking every *.pkl, as clear_cache(None) does.
FilesAfterClearEverything(m, ck) ==
    IF mgr[m].backend = "file" THEN [c \in CacheKeys |-> None] ELSE files

\* if cache_file.exists(): cache_file.unlink()
FilesAfterClear(m, ck) ==
    IF mgr[m].backend = "file" THEN [files EXCEPT ![ck] = None] ELSE files

\* The entries the backend of m holds: dict keys, or cache_dir.glob("*.pkl").
Held(m) ==
    IF mgr[m].backend = "memory" THEN {ck \in CacheKeys : memory_cache[m][ck] # None}
    ELSE IF mgr[m].backend = "file" THEN {ck \in CacheKeys : files[ck] # None}
    ELSE {}

\* CacheManager.clear_cache(key)
ClearCache(m, key) ==
    LET ck == get_cache_key(key) IN
    /\ mgr[m].backend # "none"
    /\ memory_cache' = MemoryAfterClear(m, ck)
    /\ files' = FilesAfterClear(m, ck)
    /\ last' = [NoCall EXCEPT !.op = "clear", !.mgr = m, !.key = key,
                              !.result = "return", !.value = "True",
                              !.removed = Held(m) \cap {ck}]
    /\ UNCHANGED <<now, mgr, stats, redis>>

\* ClearAll that also zeroes the counters of the instance.
ClearAllResetting(m) ==
    /\ mgr[m].backend # "none"
    /\ memory_cache' = IF mgr[m].backend = "memory"
                       THEN [memory_cache EXCEPT ![m] = [ck \in CacheKeys |-> None]]
                       ELSE memory_cache
    /\ files' = IF mgr[m].backend = "file"
                THEN [ck \in CacheKeys |-> None]
                ELSE files
    /\ stats' = [stats EXCEPT ![m] = ZeroStats]
    /\ last' = [NoCall EXCEPT !.op = "clear_all", !.mgr = m,
                              !.result = "return", !.value = "True",
                              !.removed = Held(m)]
    /\ UNCHANGED <<now, mgr, redis>>

\* CacheManager.clear_cache(None), also reached through clear_all():
\* memory_cache.clear() / unlink every *.pkl of cache_dir
ClearAll(m) ==
    /\ mgr[m].backend # "none"
    /\ memory_cache' = IF mgr[m].backend = "memory"
                       THEN [memory_cache EXCEPT ![m] = [ck \in CacheKeys |-> None]]
                       ELSE memory_cache
    /\ files' = IF mgr[m].backend = "file"
                THEN [ck \in CacheKeys |-> None]
                ELSE files
    /\ last' = [NoCall EXCEPT !.op = "clear_all", !.mgr = m,
                              !.result = "return", !.value = "True",
                              !.removed = Held(m)]
    /\ UNCHANGED <<now, mgr, stats, redis>>

\* Wall-clock time passes between two calls.
Tick ==
    /\ now < MaxTime
    /\ now' = now + 1
    /\ UNCHANGED <<mgr, memory_cache, stats, files, redis, last>>

\* ------------------------------------------------------------ construction
\* CacheManager.__init__(cache_dir, cache_ttl_minutes, backend)
NewCacheManager(ttl, backend) ==
    [backend |-> backend, cache_ttl |-> ttl, distributed |-> FALSE, redis_client |-> FALSE]

\* DistributedCacheManager.__init__: file backend; redis_client stays None
\* when no host is given or the ping fails.
NewDistributedCacheManager(ttl, connected) ==
    [backend |-> "file", cache_ttl |-> ttl, distributed |-> TRUE, redis_client |-> connected]

\* No CacheWarmer has been constructed, no warm_cache() is running.
NoWarm == [pc |-> "idle", now |-> -1, i |-> 0, before |-> <<>>,
           invoked |-> {}, returned |-> {}]
\* The instance is not inside a get_or_fetch call.
NoFrame == [pc |-> "idle", key |-> "none", data |-> "none", timestamp |-> -1,
            before |-> None]
\* No series has been handed to the analytics.
NoFlows == [op |-> "none"]
NoReport == [op |-> "none"]

EmptyStores ==
    /\ warming_schedule = <<>>
    /\ warm = NoWarm
    /\ now = 0
    /\ memory_cache = [m \in Managers |-> [ck \in CacheKeys |-> None]]
    /\ stats = [m \in Managers |-> ZeroStats]
    /\ files = [ck \in CacheKeys |-> None]
    /\ redis = [ck \in CacheKeys |-> NoRedisKey]
    /\ last = NoCall
    /\ inflight = [m \in Managers |-> NoFrame]

\* One CacheManager with the memory or the file backend.
Init ==
    /\ EmptyStores
    /\ flows = NoFlows /\ report = NoReport
    /\ \E ttl \in DefaultTTLs, b \in {"memory", "file"} :
          mgr = [m \in Managers |-> IF m = "m1" THEN NewCacheManager(ttl, b)
                                    ELSE NoManager]

\* One DistributedCacheManager.
InitDist ==
    /\ EmptyStores
    /\ flows = NoFlows /\ report = NoReport
    /\ \E ttl \in DefaultTTLs, c \in BOOLEAN :
          mgr = [m \in Managers |-> IF m = "m1" THEN NewDistributedCacheManager(ttl, c)
                                    ELSE NoManager]

Next ==
    \/ \E m \in Managers, key \in Keys, outcome \in FetchOutcomes,
          force \in BOOLEAN, ttl_minutes \in TTLOverrides,
          wfault \in WriteFaults, redis_ok \in BOOLEAN :
            /\ GetOrFetch(m, key, outcome, force, ttl_minutes, wfault, redis_ok)
            /\ UNCHANGED <<warmer_vars, flow_vars, conc_vars>>
    \/ \E m \in Managers, key \in Keys :
            ClearCache(m, key) /\ UNCHANGED <<warmer_vars, flow_vars, conc_vars>>
    \/ \E m \in Managers :
            ClearAll(m) /\ UNCHANGED <<warmer_vars, flow_vars, conc_vars>>
    \/ Tick /\ UNCHANGED <<warmer_vars, flow_vars, conc_vars>>

Spec == Init /\ [][Next]_vars
SpecDist == InitDist /\ [][Next]_vars

TypeOK ==
    /\ now \in 0..MaxTime
    /\ \A m \in Managers :
         /\ stats[m].hits \in 0..MaxCount
         /\ stats[m].misses \in 0..MaxCount
         /\ stats[m].expires \in 0..MaxCount
         /\ stats[m].hits + stats[m].misses + stats[m].expires <= MaxCount + 1
    /\ last.op \in {"none", "get", "begin", "clear", "clear_all", "get_stats", "add_task",
                  "warm_cache"}
    /\ last.fetch \in {"none"} \cup FetchOutcomes
    /\ last.wfault \in WriteFaults
    /\ last.result \in {"none", "return", "raise"}

\* ------------------------------------------------------------------ claims
\* The entry the backend of m holds for `key` (None when there is none or
\* the file cannot be unpickled), read off the stores.
StoredEntry(m, key) ==
    IF mgr[m].backend = "memory" THEN memory_cache[m][get_cache_key(key)]
    ELSE IF files[get_cache_key(key)] = Corrupt THEN None
    ELSE files[get_cache_key(key)]

\* StoredEntry in the state after the step.
StoredEntryAfter(m, key) ==
    IF mgr[m].backend = "memory" THEN memory_cache'[m][get_cache_key(key)]
    ELSE IF files'[get_cache_key(key)] = Corrupt THEN None
    ELSE files'[get_cache_key(key)]

\* The TTL a call is specified to apply: the per-call ttl_minutes when one is
\* given (any value >= 0), the manager's default otherwise.
SpecifiedTTL(m, ttl_minutes) ==
    IF ttl_minutes = NoneTTL THEN mgr[m].cache_ttl ELSE ttl_minutes

\* Every step that leaves the clock alone is a call, recorded in last'.
GetStep == now' = now /\ last'.op = "get"

\* C1: a non-forced get_or_fetch made at age D after a store of k, under the
\* effective TTL t (default or per-call override, t >= 0), returns the stored
\* payload without invoking f when D < t and invokes f when D >= t.
C1_TTLProperty ==
    [][(/\ GetStep /\ ~last'.force
        /\ StoredEntry(last'.mgr, last'.key) # None) =>
            IF now - StoredEntry(last'.mgr, last'.key).timestamp
                 < SpecifiedTTL(last'.mgr, last'.ttl_minutes)
            THEN /\ last'.fetch = "none"
                 /\ last'.result = "return"
                 /\ last'.value = StoredEntry(last'.mgr, last'.key).data
            ELSE last'.fetch # "none"]_vars

\* C2: when an entry is stored for k (of any age) and the fetch function
\* invoked by get_or_fetch raises, get_or_fetch returns the stored payload
\* and does not raise.
C2_StaleFallback ==
    [][(/\ GetStep /\ last'.fetch = Raise
        /\ StoredEntry(last'.mgr, last'.key) # None) =>
            /\ last'.result = "return"
            /\ last'.value = StoredEntry(last'.mgr, last'.key).data]_vars

\* C2 witness: a non-forced call whose fetch raised handed back the entry.
C2_Witness ==
    /\ last.op = "get" /\ last.fetch = Raise /\ last.result = "return"
    /\ StoredEntry(last.mgr, last.key) # None
    /\ last.value = StoredEntry(last.mgr, last.key).data
    /\ ~last.force

\* C3: when no entry is stored for k and the fetch function raises,
\* get_or_fetch raises, with force_refresh false as well as true.
C3_NoStaleFallback ==
    [][(/\ GetStep /\ last'.fetch = Raise
        /\ StoredEntry(last'.mgr, last'.key) = None) =>
            last'.result = "raise"]_vars

\* C3 witness: a forced call on a key without entry ended by raising.
C3_Witness ==
    /\ last.op = "get" /\ last.force /\ last.fetch = Raise
    /\ last.result = "raise"
    /\ StoredEntry(last.mgr, last.key) = None

\* C4 as stated: a forced get_or_fetch invokes f once whatever the entry of
\* k is, and when f returns v the stored entry of k is (v, now).
C4_ForceRefreshOriginal ==
    [][(GetStep /\ last'.force) =>
            /\ last'.fetch # "none"
            /\ last'.fetch \in Payloads =>
                 StoredEntryAfter(last'.mgr, last'.key) = Entry(last'.fetch, now)]_vars

\* C4 amended: a forced get_or_fetch invokes f once whatever the entry of k
\* is, and when f returns v and the backend write succeeds the stored entry
\* of k is (v, now).
C4_ForceRefresh ==
    [][(GetStep /\ last'.force) =>
            /\ last'.fetch # "none"
            /\ (last'.fetch \in Payloads /\ last'.wfault = "ok") =>
                 StoredEntryAfter(last'.mgr, last'.key) = Entry(last'.fetch, now)]_vars

\* C4 witness: a forced call after the clock advanced stored what it fetched,
\* and the manager had stored an entry before.
C4_Witness ==
    /\ last.op = "get" /\ last.force /\ last.fetch \in Payloads
    /\ StoredEntry(last.mgr, last.key) = Entry(last.fetch, now)
    /\ now > 0 /\ stats[last.mgr].misses >= 2

\* C5 as stated: a forced get_or_fetch on a key with a stored entry whose
\* fetch raises propagates the failure; the stored payload is not returned.
C5_ForcedFailureOriginal ==
    [][(/\ GetStep /\ last'.force /\ last'.fetch = Raise
        /\ StoredEntry(last'.mgr, last'.key) # None) =>
            last'.result = "raise"]_vars

\* C5 amended: a forced get_or_fetch on a key with a stored entry whose
\* fetch raises returns the stored payload and does not raise, as a
\* non-forced call does: the error handler reads the cache also when the
\* refresh was forced.
C5_ForcedFailure ==
    [][(/\ GetStep /\ last'.force /\ last'.fetch = Raise
        /\ StoredEntry(last'.mgr, last'.key) # None) =>
            /\ last'.result = "return"
            /\ last'.value = StoredEntry(last'.mgr, last'.key).data]_vars

\* C5 witness: a forced call whose fetch raised handed back the entry.
C5_Witness ==
    /\ last.op = "get" /\ last.force /\ last.fetch = Raise
    /\ last.result = "return"
    /\ StoredEntry(last.mgr, last.key) # None
    /\ last.value = StoredEntry(last.mgr, last.key).data

\* C6: a get_or_fetch whose fetch raises leaves every stored entry, payload
\* and timestamp, of every key as it was.
C6_FailedFetchFrame ==
    [][(GetStep /\ last'.fetch = Raise) =>
            /\ memory_cache' = memory_cache
            /\ files' = files
            /\ redis' = redis]_vars

\* C6 witness: a fetch raised while both keys had a stored entry.
C6_Witness ==
    /\ last.op = "get" /\ last.fetch = Raise
    /\ \A k \in Keys : StoredEntry(last.mgr, k) # None

\* C7: after clear_cache(None), a get_or_fetch of a key that was cached
\* before the clear invokes the fetch function, leaves hits as it was and,
\* the fetch returning, adds one to misses; for every backend, the
\* DistributedCacheManager with a reachable Redis included.
C7_ClearAllThenMiss ==
    [][(/\ last.op = "clear_all" /\ GetStep
        /\ last'.mgr = last.mgr
        /\ get_cache_key(last'.key) \in last.removed) =>
            /\ last'.fetch # "none"
            /\ stats'[last.mgr].hits = stats[last.mgr].hits
            /\ last'.fetch \in Payloads =>
                 stats'[last.mgr].misses = stats[last.mgr].misses + 1]_vars

C9_WriteFailure ==
    [][(GetStep /\ last'.fetch \in Payloads /\ last'.wfault # "ok") =>
            /\ last'.result = "return"
            /\ last'.value = last'.fetch]_vars

\* C9 witness: pickle.dump failed, the call returned the fetched value and
\* left the truncated file behind.
C9_Witness ==
    /\ last.op = "get" /\ last.fetch \in Payloads /\ last.wfault = "dump"
    /\ last.result = "return" /\ last.value = last.fetch
    /\ files[get_cache_key(last.key)] = Corrupt

\* C10: a fresh hit (non-forced, entry age < TTL) adds one to hits and
\* leaves misses and expirations; a non-forced call finding an entry of age
\* >= TTL adds one to expirations and goes on to fetch; a call whose fetch
\* returns adds one to misses and nothing to hits.
C10_Counters ==
    [][GetStep =>
            LET m == last'.mgr
                e == StoredEntry(last'.mgr, last'.key)
                fresh == now - e.timestamp
                           < SpecifiedTTL(last'.mgr, last'.ttl_minutes)
            IN
            /\ (~last'.force /\ e # None /\ fresh) =>
                 /\ stats'[m].hits = stats[m].hits + 1
                 /\ stats'[m].misses = stats[m].misses
                 /\ stats'[m].expires = stats[m].expires
            /\ (~last'.force /\ e # None /\ ~fresh) =>
                 /\ stats'[m].expires = stats[m].expires + 1
                 /\ last'.fetch # "none"
            /\ last'.fetch \in Payloads =>
                 /\ stats'[m].misses = stats[m].misses + 1
                 /\ stats'[m].hits = stats[m].hits]_vars

\* ------------------------------------------------------------ CacheWarmer
Intervals == {0, 1}      \* interval_minutes given to add_warmup_task
NoneTime == -1           \* last_warmed = None
Warmer == "m1"           \* the cache_manager handed to CacheWarmer.__init__

\* self.warming_schedule[key] = {fetch_func, interval, last_warmed: None}
Task(key, interval) ==
    [key |-> key, interval |-> interval, last_warmed |-> NoneTime]

\* The position of `key` in a schedule, 0 when it has no task.
TaskIndex(schedule, key) ==
    IF \E i \in 1..Len(schedule) : schedule[i].key = key
    THEN CHOOSE i \in 1..Len(schedule) : schedule[i].key = key
    ELSE 0

\* CacheWarmer.add_warmup_task(key, fetch_func, interval_minutes): a dict
\* assignment, which keeps the position of a key already scheduled.
AddWarmupTask(key, interval) ==
    /\ warm.pc # "loop"
    /\ warming_schedule' =
         IF TaskIndex(warming_schedule, key) = 0
         THEN Append(warming_schedule, Task(key, interval))
         ELSE [warming_schedule EXCEPT ![TaskIndex(warming_schedule, key)] =
                  Task(key, interval)]
    /\ warm' = NoWarm
    /\ last' = [NoCall EXCEPT !.op = "add_task", !.key = key]
    /\ UNCHANGED <<now, mgr, memory_cache, stats, files, redis, flow_vars,
                 conc_vars>>

\* last_warmed is None or (now - last_warmed).total_seconds() > interval * 60
IsDue(task, t) ==
    task.last_warmed = NoneTime \/ t - task.last_warmed > task.interval

\* warm_cache(): now = datetime.now(), then the loop over the schedule.
WarmCache ==
    /\ warm.pc # "loop"
    /\ mgr[Warmer].backend # "none"
    /\ stats[Warmer].hits + stats[Warmer].misses + stats[Warmer].expires
         + Len(warming_schedule) <= MaxCount
    /\ warm' = [pc |-> IF Len(warming_schedule) = 0 THEN "done" ELSE "loop",
                now |-> now, i |-> 1, before |-> warming_schedule,
                invoked |-> {}, returned |-> {}]
    /\ last' = [NoCall EXCEPT !.op = "warm_cache"]
    /\ UNCHANGED <<now, mgr, memory_cache, stats, files, redis,
                   warming_schedule, flow_vars, conc_vars>>

\* AfterBody without the try/except around get_or_fetch: the exception of
\* one task ends the whole loop.
AfterBodyAborting(task) ==
    /\ warming_schedule' =
         IF last'.result = "return"
         THEN [warming_schedule EXCEPT ![warm.i].last_warmed = warm.now]
         ELSE warming_schedule
    /\ warm' = [warm EXCEPT
                  !.pc = IF warm.i = Len(warming_schedule) \/ last'.result = "raise"
                         THEN "done" ELSE "loop",
                  !.i = @ + 1,
                  !.invoked = IF last'.fetch # "none" THEN @ \cup {task.key} ELSE @,
                  !.returned = IF last'.fetch \in Payloads THEN @ \cup {task.key} ELSE @]

\* What follows the get_or_fetch of a due task: task['last_warmed'] = now
\* when it returned, the except clause (a log line) when it raised; then the
\* next item.  invoked / returned record the tasks whose fetch function was
\* invoked / returned during this invocation.
AfterBody(task) ==
    /\ warming_schedule' =
         IF last'.result = "return"
         THEN [warming_schedule EXCEPT ![warm.i].last_warmed = warm.now]
         ELSE warming_schedule
    /\ warm' = [warm EXCEPT
                  !.pc = IF warm.i = Len(warming_schedule) THEN "done" ELSE "loop",
                  !.i = @ + 1,
                  !.invoked = IF last'.fetch # "none" THEN @ \cup {task.key} ELSE @,
                  !.returned = IF last'.fetch \in Payloads THEN @ \cup {task.key} ELSE @]

\* One iteration of the loop of warm_cache(), on the item at position warm.i:
\* a due task is fetched through get_or_fetch(key, fetch_func,
\* force_refresh=True), any other is passed over.
WarmTask(outcome, wfault) ==
    /\ warm.pc = "loop"
    /\ LET task == warming_schedule[warm.i] IN
       IF IsDue(task, warm.now)
       THEN /\ GetOrFetch(Warmer, task.key, outcome, TRUE, NoneTTL, wfault, TRUE)
            /\ AfterBody(task)
       ELSE /\ outcome = Raise /\ wfault = "ok"
            /\ warm' = [warm EXCEPT
                          !.pc = IF warm.i = Len(warming_schedule)
                                 THEN "done" ELSE "loop",
                          !.i = @ + 1]
            /\ UNCHANGED <<cache_vars, warming_schedule>>
    /\ UNCHANGED <<flow_vars, conc_vars>>

\* One CacheManager, handed to one CacheWarmer with an empty schedule.
InitWarm ==
    /\ EmptyStores
    /\ flows = NoFlows /\ report = NoReport
    /\ \E b \in {"memory", "file"} :
          mgr = [m \in Managers |-> IF m = Warmer THEN NewCacheManager(2, b)
                                    ELSE NoManager]

\* While warm_cache() runs nothing else does (one thread); the clock goes on.
NextWarm ==
    \/ \E key \in Keys, interval \in Intervals : AddWarmupTask(key, interval)
    \/ WarmCache
    \/ \E outcome \in FetchOutcomes, wfault \in WriteFaults : WarmTask(outcome, wfault)
    \/ Tick /\ UNCHANGED <<warmer_vars, flow_vars, conc_vars>>

SpecWarm == InitWarm /\ [][NextWarm]_vars

\* The tasks of a schedule that are due at time t according to the
\* description of warm_cache: last_warmed unset or older than interval_minutes.
DueTasks(schedule, t) ==
    {schedule[i].key : i \in {j \in 1..Len(schedule) :
        \/ schedule[j].last_warmed = NoneTime
        \/ t - schedule[j].last_warmed > schedule[j].interval}}

\* C11: in one warm_cache() invocation the tasks whose fetch function is
\* invoked are exactly the due tasks (last_warmed unset or older than the
\* interval): a task warmed within its interval is not fetched, and a due
\* task that fails does not keep another due task from being attempted.
C11_WarmExactlyDue ==
    warm.pc = "done" => warm.invoked = DueTasks(warm.before, warm.now)

\* C11 witness: an invocation ended in which a task warmed exactly one
\* interval ago was passed over, and a due task was attempted and raised.
C11_Witness ==
    /\ warm.pc = "done"
    /\ Len(warm.before) = 2
    /\ \E i, j \in 1..2 :
         /\ warm.before[i].last_warmed # NoneTime
         /\ warm.now - warm.before[i].last_warmed = warm.before[i].interval
         /\ warm.before[i].key \notin warm.invoked
         /\ warm.before[j].key \in warm.invoked \ warm.returned

\* C12: after warm_cache() a due task's last_warmed is the invocation's now
\* if and only if its fetch function returned; a due task whose fetch
\* function raised keeps its previous last_warmed, with or without an old
\* entry for its key.
C12_LastWarmed ==
    warm.pc = "done" =>
        \A i \in 1..Len(warm.before) :
            warm.before[i].key \in DueTasks(warm.before, warm.now) =>
                /\ warming_schedule[i].last_warmed = warm.now
                     <=> warm.before[i].key \in warm.returned
                /\ warm.before[i].key \notin warm.returned =>
                     warming_schedule[i].last_warmed = warm.before[i].last_warmed

\* ------------------------------------------------- the remote (Redis) tier
\* A get_or_fetch step of the file-backed CacheManager, as seen on the disk
\* entries, the counters and what the caller gets.
FileBackedStep(m) ==
    LET ck   == get_cache_key(last'.key)
        disk == BaseGetFromCache(m, ck)
        ttl  == EffectiveTTL(m, last'.ttl_minutes)
        old  == IF ~last'.force /\ disk # None THEN 1 ELSE 0
    IN
    IF ~last'.force /\ disk # None /\ IsFresh(disk, ttl)
    THEN /\ last'.fetch = "none"
         /\ last'.result = "return" /\ last'.value = disk.data
         /\ stats' = [stats EXCEPT ![m].hits = @ + 1]
         /\ files' = files
    ELSE /\ last'.fetch # "none"
         /\ last'.fetch = Raise =>
              /\ IF disk # None
                 THEN last'.result = "return" /\ last'.value = disk.data
                 ELSE last'.result = "raise"
              /\ stats' = [stats EXCEPT ![m].expires = @ + old]
              /\ files' = files
         /\ last'.fetch \in Payloads =>
              /\ last'.result = "return" /\ last'.value = last'.fetch
              /\ stats' = [stats EXCEPT ![m].expires = @ + old, ![m].misses = @ + 1]
              /\ files' = FilesAfterSet(m, ck, last'.fetch, last'.wfault)

\* The remote tier answers during the call recorded in last'.
RemoteUp(m) == mgr[m].redis_client /\ last'.redis_ok

\* C13: a DistributedCacheManager whose remote tier fails on every read and
\* write behaves on get_or_fetch and clear_cache exactly like a file-backed
\* CacheManager (same values, same failures, same counters); when the remote
\* tier is available it is read before the disk entry and written together
\* with it.
C13_RemoteTier ==
    [][\A m \in Managers :
        /\ (GetStep /\ last'.mgr = m /\ mgr[m].distributed) =>
            LET ck     == get_cache_key(last'.key)
                remote == RedisGet(ck)
                ttl    == EffectiveTTL(m, last'.ttl_minutes)
            IN
            /\ ~RemoteUp(m) => FileBackedStep(m) /\ redis' = redis
            /\ (/\ RemoteUp(m) /\ ~last'.force /\ remote # NoRedisKey
                /\ IsFresh(Entry(remote.data, fromisoformat(remote.timestamp)), ttl)) =>
                    /\ last'.fetch = "none"
                    /\ last'.result = "return" /\ last'.value = remote.data
            /\ (/\ RemoteUp(m) /\ last'.fetch \in Payloads
                /\ files'[ck] = Entry(last'.fetch, now)) =>
                    /\ redis'[ck] # NoRedisKey
                    /\ fromisoformat(redis'[ck].timestamp) = now
        /\ (/\ now' = now /\ last'.op \in {"clear", "clear_all"}
            /\ last'.mgr = m /\ mgr[m].distributed) =>
                \A c \in last'.removed : files'[c] = None]_vars

\* ------------------------------------------- analytics on a flow series
MaxLen == 3               \* a series has at most this many records
Hours == 0..2             \* timestamps, in hours
Values == {-3, 2, 3}      \* flow_mw: signed flows
Thresholds == {5, 20}     \* deviation_threshold given to detect_surge_alerts
Lookbacks == {1, 2}       \* hours_lookback given to detect_surge_alerts
ScenarioLen == 200        \* hourly records of the end-to-end scenario
ScenarioWindow == 168     \* rolling(window=168); '7D' is 168 hours
BaseFlow == 5000          \* flow of the scenario's ordinary records
SpikeFlow == 7500         \* flow of its one record 50% above them

\* The enumerated series are short and their windows are scaled down with
\* them; the scenario keeps the lengths of the code.
IsScenario == flows.op = "scenario"
\* datetime.now() of the analytics
NowHour == IF IsScenario THEN ScenarioLen ELSE 2
\* rolling(window=168): 168 rows, scaled to 2
RollingRows == IF IsScenario THEN ScenarioWindow ELSE 2
\* rolling('7D'): 7 days, scaled to 2 hours
BaselineHours == IF IsScenario THEN ScenarioWindow ELSE 2
AnomalyPct == 20          \* df['deviation_pct'].abs() > 20
HighPct == 40             \* 'HIGH' if abs(row['deviation_pct']) > 40

FlowRecords == [timestamp : Hours, flow_mw : Values]
AllSeries == UNION {[1..n -> FlowRecords] : n \in 0..MaxLen}

\* A DataFrame: rows in order, each with its index label.
Frame(series) ==
    [i \in 1..Len(series) |->
        [idx |-> i, timestamp |-> series[i].timestamp, flow_mw |-> series[i].flow_mw]]

\* The row goes after every row whose timestamp is not later.
InsertRow(df, row) ==
    LET k == Cardinality({i \in 1..Len(df) : df[i].timestamp <= row.timestamp})
    IN SubSeq(df, 1, k) \o <<row>> \o SubSeq(df, k + 1, Len(df))

\* df.sort_values('timestamp'); rows of equal timestamp keep their order, as
\* they do in the insertion sort numpy applies to short arrays.  A frame
\* that is in order already is its own sorted frame.
RECURSIVE sort_values(_)
sort_values(df) ==
    IF \A i \in 1..Len(df) - 1 : df[i].timestamp <= df[i + 1].timestamp
    THEN df
    ELSE InsertRow(sort_values(SubSeq(df, 1, Len(df) - 1)), df[Len(df)])

\* The sum of flow_mw over rows lo..hi, by halves.
RECURSIVE SumRows(_, _, _)
SumRows(df, lo, hi) ==
    IF lo > hi THEN 0
    ELSE IF lo = hi THEN df[lo].flow_mw
    ELSE SumRows(df, lo, (lo + hi) \div 2) + SumRows(df, (lo + hi) \div 2 + 1, hi)

\* A mean is kept as sum and count; NaN is the mean of a window that has
\* fewer rows than min_periods.
NaN == [nan |-> TRUE, sum |-> 0, n |-> 0]
Mean(sum, n) == [nan |-> FALSE, sum |-> sum, n |-> n]

\* A percentage is kept as the fraction num / den with den >= 0; den = 0 is
\* +inf or -inf, by the sign of num.
Pct(num, den) == [num |-> num, den |-> den]
Abs(x) == IF x < 0 THEN -x ELSE x
Sign(x) == IF x < 0 THEN -1 ELSE IF x > 0 THEN 1 ELSE 0

\* AbsGreater with >= for >: a value on the limit passes.
AbsAtLeast(pct, limit) == Abs(pct.num) >= limit * pct.den

\* abs(pct) > limit and abs(p) >= abs(q), on fractions
AbsGreater(pct, limit) == Abs(pct.num) > limit * pct.den
AbsGeq(p, q) == Abs(p.num) * q.den >= Abs(q.num) * p.den

\* deviation_pct without the factor 100: a fraction of the average.
deviation_fraction(flow_mw, avg, absolute) ==
    IF avg.nan THEN Pct(0, 1)
    ELSE IF avg.sum = 0
         THEN IF flow_mw = 0 THEN Pct(0, 1) ELSE Pct(Sign(flow_mw), 0)
    ELSE Pct((avg.n * flow_mw - avg.sum)
                 * (IF absolute THEN 1 ELSE Sign(avg.sum)),
             Abs(avg.sum))

\* ((flow_mw - avg) / avg.abs() * 100).fillna(0), or with / avg when
\* ~absolute: NaN (no mean, or 0 / 0) becomes 0, x / 0 is +-inf.
deviation_pct(flow_mw, avg, absolute) ==
    IF avg.nan THEN Pct(0, 1)
    ELSE IF avg.sum = 0
         THEN IF flow_mw = 0 THEN Pct(0, 1) ELSE Pct(Sign(flow_mw), 0)
    ELSE Pct(100 * (avg.n * flow_mw - avg.sum)
                 * (IF absolute THEN 1 ELSE Sign(avg.sum)),
             Abs(avg.sum))

\* rolling_avg with center=True: the window of a row reaches the row after it.
rolling_avg_centered(df, i) ==
    IF i + 1 > Len(df) THEN NaN
    ELSE Mean(SumRows(df, i, i + 1), RollingRows)

\* df['flow_mw'].rolling(window=168, center=False).mean() at row i
rolling_avg(df, i) ==
    IF i < RollingRows THEN NaN
    ELSE Mean(SumRows(df, i - RollingRows + 1, i), RollingRows)

\* The frame of detect_surge_alerts with its two derived columns.
WithDeviation(df) ==
    [i \in 1..Len(df) |->
        [idx |-> df[i].idx, timestamp |-> df[i].timestamp, flow_mw |-> df[i].flow_mw,
         rolling_avg |-> rolling_avg(df, i),
         deviation_pct |-> deviation_pct(df[i].flow_mw, rolling_avg(df, i), TRUE)]]

\* df[df['timestamp'] >= cutoff]
Recent(df, cutoff) == SelectSeq(df, LAMBDA row : row.timestamp >= cutoff)

\* df[df['deviation_pct'].abs() > deviation_threshold]
Deviating(df, threshold) ==
    SelectSeq(df, LAMBDA row : AbsGreater(row.deviation_pct, threshold))

\* The alert dictionary made from a row; idx is the row it was made from.
Alert(row) ==
    [idx |-> row.idx, timestamp |-> row.timestamp,
     type |-> IF row.deviation_pct.num > 0 THEN "SURGE" ELSE "DROP",
     current_flow |-> row.flow_mw, avg_flow |-> row.rolling_avg,
     deviation_pct |-> row.deviation_pct,
     severity |-> IF AbsGreater(row.deviation_pct, HighPct) THEN "HIGH" ELSE "MEDIUM"]

\* The alert goes after every alert whose abs(deviation_pct) is not smaller.
InsertAlert(alerts, a) ==
    LET k == Cardinality({i \in 1..Len(alerts) :
                 AbsGeq(alerts[i].deviation_pct, a.deviation_pct)})
    IN SubSeq(alerts, 1, k) \o <<a>> \o SubSeq(alerts, k + 1, Len(alerts))

\* sorted without reverse=True: smallest deviation first.
RECURSIVE sorted_ascending(_)
sorted_ascending(alerts) ==
    IF Len(alerts) <= 1 THEN alerts
    ELSE LET rest == sorted_ascending(SubSeq(alerts, 1, Len(alerts) - 1))
             a    == alerts[Len(alerts)]
             k    == Cardinality({i \in 1..Len(rest) :
                         AbsGeq(a.deviation_pct, rest[i].deviation_pct)})
         IN SubSeq(rest, 1, k) \o <<a>> \o SubSeq(rest, k + 1, Len(rest))

\* sorted(alerts, key=lambda x: abs(x['deviation_pct']), reverse=True)
RECURSIVE sorted(_)
sorted(alerts) ==
    IF Len(alerts) <= 1 THEN alerts
    ELSE InsertAlert(sorted(SubSeq(alerts, 1, Len(alerts) - 1)), alerts[Len(alerts)])

\* detect_surge_alerts that drops the rows before the cutoff first and
\* computes the rolling average of what is left.
detect_surge_alerts_recent_first(series, deviation_threshold, hours_lookback, t) ==
    LET df    == WithDeviation(Recent(sort_values(Frame(series)), t - hours_lookback))
        found == Deviating(df, deviation_threshold)
    IN [op |-> "alerts", df |-> df,
        alerts |-> sorted([i \in 1..Len(found) |-> Alert(found[i])])]

\* detect_surge_alerts(flows, deviation_threshold, hours_lookback), called
\* at time t
detect_surge_alerts(series, deviation_threshold, hours_lookback, t) ==
    LET df     == WithDeviation(sort_values(Frame(series)))
        recent == Recent(df, t - hours_lookback)
        found  == Deviating(recent, deviation_threshold)
    IN [op |-> "alerts", df |-> df,
        alerts |-> sorted([i \in 1..Len(found) |-> Alert(found[i])])]

DetectSurgeAlerts ==
    /\ report = NoReport
    /\ report' = detect_surge_alerts(flows.series, flows.deviation_threshold,
                                     flows.hours_lookback, NowHour)
    /\ UNCHANGED <<cache_vars, warmer_vars, conc_vars, flows>>

\* The series is in timestamp order, as process_interconnection_data leaves it.
IsProcessed(series) ==
    \A i \in 1..Len(series) - 1 : series[i].timestamp <= series[i + 1].timestamp

\* The timestamps never increase and are not all the same: a decreasing index.
IsDecreasing(series) ==
    /\ \A i \in 1..Len(series) - 1 : series[i].timestamp >= series[i + 1].timestamp
    /\ ~IsProcessed(series)

\* The rows of the window rolling('7D') gives row i of a frame in timestamp
\* order: those of the last BaselineHours hours up to the row itself.  Rows
\* after i of the same timestamp are inside the window in the pandas builds
\* that extend the window's end over equal index values (tied), outside in
\* the others.
WindowRows(df, i, tied) ==
    {j \in 1..Len(df) :
        /\ df[j].timestamp > df[i].timestamp - BaselineHours
        /\ df[j].timestamp <= df[i].timestamp
        /\ j <= i \/ tied}

\* The window of row i over a decreasing index, in the pandas builds that
\* accept one: the bounds are mirrored, the window reaches from the row back
\* over the rows above it, which are the later ones in time.
WindowRowsDecreasing(df, i, tied) ==
    {j \in 1..Len(df) :
        /\ df[j].timestamp < df[i].timestamp + BaselineHours
        /\ df[j].timestamp >= df[i].timestamp
        /\ j <= i \/ tied}

Lowest(S) == CHOOSE x \in S : \A y \in S : x <= y
Highest(S) == CHOOSE x \in S : \A y \in S : x >= y

\* df['flow_mw'].rolling('7D').mean() at row i (min_periods is 1)
flow_7day_avg(df, i, tied) ==
    LET w == IF IsProcessed(df) THEN WindowRows(df, i, tied)
             ELSE WindowRowsDecreasing(df, i, tied)
    IN Mean(SumRows(df, Lowest(w), Highest(w)), Cardinality(w))

\* calculate_flow_metrics(flows): the columns flow_7day_avg, deviation_pct
\* and is_anomaly it adds to each row.  It does not sort: rolling('7D')
\* raises ValueError on an index that is not monotonic (and, in the pandas
\* builds with ~decreasing, on a decreasing one), and the except clause
\* returns the frame it was given, without the columns.
calculate_flow_metrics(series, tied, decreasing) ==
    LET df == Frame(series)
    IN IF ~IsProcessed(series) /\ ~(decreasing /\ IsDecreasing(series))
       THEN [op |-> "flows", df |-> df]
       ELSE [op |-> "metrics", tied |-> tied,
             df |-> [i \in 1..Len(df) |->
                      LET avg == flow_7day_avg(df, i, tied)
                          dev == deviation_pct(df[i].flow_mw, avg, FALSE)
                      IN [idx |-> df[i].idx, timestamp |-> df[i].timestamp,
                          flow_mw |-> df[i].flow_mw, flow_7day_avg |-> avg,
                          deviation_pct |-> dev,
                          is_anomaly |-> AbsGreater(dev, AnomalyPct)]]]

\* calculate_flow_metrics on the flow data it is handed
CalculateFlowMetrics(tied, decreasing) ==
    /\ report = NoReport
    /\ report' = calculate_flow_metrics(flows.series, tied, decreasing)
    /\ UNCHANGED <<cache_vars, warmer_vars, conc_vars, flows>>

\* The analytics are handed a series and their parameters.
InitFlows ==
    /\ EmptyStores
    /\ mgr = [m \in Managers |-> NoManager]
    /\ flows \in [op : {"flows"}, series : AllSeries,
                  deviation_threshold : Thresholds, hours_lookback : Lookbacks]
    /\ report = NoReport

NextFlows ==
    \/ DetectSurgeAlerts
    \/ \E tied, decreasing \in BOOLEAN : CalculateFlowMetrics(tied, decreasing)

SpecFlows == InitFlows /\ [][NextFlows]_vars

\* The whole series in timestamp order with the deviation of every record
\* from the average of the RollingRows records ending with it, whether
\* or not they are inside the lookback.
Deviations == WithDeviation(sort_values(Frame(flows.series)))
Cutoff == NowHour - flows.hours_lookback

\* C14: detect_surge_alerts returns exactly one alert for every record whose
\* timestamp is at or after now - hours_lookback and whose |deviation_pct|
\* exceeds deviation_threshold, and none for any other record; the records
\* before the lookback still enter the baseline of an eligible record.
C14_AlertsExactlyEligible ==
    report.op = "alerts" =>
        /\ \A i \in 1..Len(Deviations) :
             LET row == Deviations[i]
                 of  == {k \in 1..Len(report.alerts) : report.alerts[k].idx = row.idx}
             IN IF /\ row.timestamp >= Cutoff
                   /\ AbsGreater(row.deviation_pct, flows.deviation_threshold)
                THEN /\ Cardinality(of) = 1
                     /\ \A k \in of :
                          /\ report.alerts[k].timestamp = row.timestamp
                          /\ report.alerts[k].current_flow = row.flow_mw
                          /\ report.alerts[k].avg_flow = row.rolling_avg
                          /\ report.alerts[k].deviation_pct = row.deviation_pct
                ELSE of = {}
        /\ \A k \in 1..Len(report.alerts) :
             \E i \in 1..Len(Deviations) : report.alerts[k].idx = Deviations[i].idx

\* C14 witness: an alert on a record inside the lookback whose baseline
\* takes in a record before the cutoff, while a deviating record before the
\* cutoff has no alert.
C14_Witness ==
    /\ report.op = "alerts"
    /\ \E i \in 2..Len(Deviations) :
         /\ Deviations[i].timestamp >= Cutoff
         /\ Deviations[i - 1].timestamp < Cutoff
         /\ \E k \in 1..Len(report.alerts) : report.alerts[k].idx = Deviations[i].idx
    /\ \E i \in 1..Len(Deviations) :
         /\ Deviations[i].timestamp < Cutoff
         /\ AbsGreater(Deviations[i].deviation_pct, flows.deviation_threshold)

\* C15: for every deviation_threshold T, an alert has severity HIGH if and
\* only if its |deviation_pct| > 2 * T, and MEDIUM otherwise.
C15_Severity ==
    report.op = "alerts" =>
        \A k \in 1..Len(report.alerts) :
            LET a == report.alerts[k] IN
            /\ a.severity \in {"HIGH", "MEDIUM"}
            /\ a.severity = "HIGH" <=>
                 Abs(a.deviation_pct.num)
                   > 2 * flows.deviation_threshold * a.deviation_pct.den

\* C16: the alert list is ordered by non-increasing |deviation_pct|.
C16_AlertOrdering ==
    report.op = "alerts" =>
        \A k \in 1..Len(report.alerts) - 1 :
            Abs(report.alerts[k].deviation_pct.num) * report.alerts[k + 1].deviation_pct.den
              >= Abs(report.alerts[k + 1].deviation_pct.num) * report.alerts[k].deviation_pct.den

\* C16 witness: two alerts of different deviation, the larger one made from
\* the later row of the frame.
C16_Witness ==
    /\ report.op = "alerts"
    /\ Len(report.alerts) >= 2
    /\ ~AbsGeq(report.alerts[2].deviation_pct, report.alerts[1].deviation_pct)
    /\ \E i, j \in 1..Len(report.df) :
         /\ i < j
         /\ report.df[j].idx = report.alerts[1].idx
         /\ report.df[i].idx = report.alerts[2].idx

\* The baseline column of a row of the frame reported.
BaselineOf(row) ==
    IF report.op = "alerts" THEN row.rolling_avg ELSE row.flow_7day_avg

\* C17: in calculate_flow_metrics and in detect_surge_alerts, deviation_pct
\* of a record is (value - baseline) / |baseline| * 100: its sign is the sign
\* of value - baseline, also under a negative baseline.
C17_DeviationFormula ==
    report.op \in {"alerts", "metrics"} =>
        \A i \in 1..Len(report.df) :
            LET row == report.df[i]
                b   == BaselineOf(row)
            IN (~b.nan /\ b.sum # 0) =>
                 \* (v - sum/n) / |sum/n| * 100 = 100 (n v - sum) / |sum|
                 /\ row.deviation_pct.den > 0
                 /\ row.deviation_pct.num * Abs(b.sum)
                      = 100 * (b.n * row.flow_mw - b.sum) * row.deviation_pct.den

\* C18: a record whose baseline is zero, null or lacks history has
\* deviation_pct 0, is not flagged is_anomaly by calculate_flow_metrics and
\* gets no alert from detect_surge_alerts, whatever its own value.
C18_NoBaseline ==
    report.op \in {"alerts", "metrics"} =>
        \A i \in 1..Len(report.df) :
            LET row == report.df[i]
                b   == BaselineOf(row)
            IN (b.nan \/ b.sum = 0) =>
                 /\ row.deviation_pct.num = 0 /\ row.deviation_pct.den > 0
                 /\ report.op = "metrics" => ~row.is_anomaly
                 /\ report.op = "alerts" =>
                      \A k \in 1..Len(report.alerts) : report.alerts[k].idx # row.idx

\* C19: the anomaly test is strict: a record whose |deviation_pct| equals
\* the threshold is not flagged and yields no alert, a record whose
\* |deviation_pct| is greater is flagged (and, inside the lookback, alerted).
C19_StrictThreshold ==
    /\ report.op = "metrics" =>
         \A i \in 1..Len(report.df) :
            LET d == report.df[i].deviation_pct IN
            /\ Abs(d.num) = AnomalyPct * d.den => ~report.df[i].is_anomaly
            /\ Abs(d.num) > AnomalyPct * d.den => report.df[i].is_anomaly
    /\ report.op = "alerts" =>
         \A i \in 1..Len(report.df) :
            LET d       == report.df[i].deviation_pct
                alerted == \E k \in 1..Len(report.alerts) :
                              report.alerts[k].idx = report.df[i].idx
            IN
            /\ Abs(d.num) = flows.deviation_threshold * d.den => ~alerted
            /\ (/\ Abs(d.num) > flows.deviation_threshold * d.den
                /\ report.df[i].timestamp >= Cutoff) => alerted

\* C19 witness: one record exactly on the 20% threshold and not flagged,
\* another above it and flagged.
C19_Witness ==
    /\ report.op = "metrics"
    /\ \E i, j \in 1..Len(report.df) :
         /\ report.df[i].deviation_pct.den > 0
         /\ Abs(report.df[i].deviation_pct.num)
              = AnomalyPct * report.df[i].deviation_pct.den
         /\ ~report.df[i].is_anomaly
         /\ report.df[j].is_anomaly

\* The frame the analytics that made the report compute for `series`.
FrameFor(series) ==
    IF report.op = "alerts"
    THEN WithDeviation(sort_values(Frame(series)))
    ELSE calculate_flow_metrics(series, report.tied, TRUE).df

\* The series with a record appended, and with record p replaced.
Appended(x) == Append(flows.series, x)
Changed(p, x) == [flows.series EXCEPT ![p] = x]

\* Every row of the report's frame that is earlier than hour t has the same
\* baseline and deviation_pct in the frame computed for `series`.
SameBefore(series, t) ==
    \A df \in {FrameFor(series)} :
        \A i \in 1..Len(report.df) :
            report.df[i].timestamp < t =>
                \E j \in 1..Len(df) : df[j] = report.df[i]

SortedFrame == sort_values(Frame(flows.series))
SortedSeries == [j \in 1..Len(SortedFrame) |-> flows.series[SortedFrame[j].idx]]

\* C21: calculate_flow_metrics accepts records in any order: applied to a
\* series that is not sorted by timestamp it returns, for each record, the
\* baseline, deviation_pct and is_anomaly it returns for that record when
\* applied to the same records sorted by timestamp.
C21_AnyOrder ==
    (report.op \in {"metrics", "flows"} /\ ~IsProcessed(flows.series)) =>
        /\ report.op = "metrics"
        /\ \A of \in {calculate_flow_metrics(SortedSeries, report.tied, TRUE).df} :
             \A j \in 1..Len(of) :
                LET row == report.df[SortedFrame[j].idx] IN
                /\ row.flow_7day_avg = of[j].flow_7day_avg
                /\ row.deviation_pct = of[j].deviation_pct
                /\ row.is_anomaly = of[j].is_anomaly

\* ------------------------------------------------- end-to-end scenario A
\* n hourly records of one route: BaseFlow, but SpikeFlow at the record
\* after the first ScenarioWindow ones.
ScenarioSeries(n) ==
    [i \in 1..n |->
        [timestamp |-> i,
         flow_mw |-> IF i = ScenarioWindow + 1 THEN SpikeFlow ELSE BaseFlow]]

\* The analytics are handed the scenario, cut off at the spike or at any
\* record after it, with threshold 20 and a lookback that holds it all.
InitScenario ==
    /\ EmptyStores
    /\ mgr = [m \in Managers |-> NoManager]
    /\ flows \in [op : {"scenario"},
                  series : {ScenarioSeries(n) : n \in ScenarioWindow + 1..ScenarioLen},
                  deviation_threshold : {AnomalyPct},
                  hours_lookback : {ScenarioLen}]
    /\ report = NoReport

SpecScenario == InitScenario /\ [][NextFlows]_vars

\* C22: on the scenario, calculate_flow_metrics marks the SpikeFlow record
\* is_anomaly with a deviation_pct of about 50 (within 45..55) and no other
\* record, and detect_surge_alerts with threshold 20 returns exactly one
\* alert, for that record, of type SURGE and severity HIGH.
C22_ScenarioA ==
    /\ report.op \in {"metrics", "flows"} =>
         /\ report.op = "metrics"
         /\ \A i \in 1..Len(report.df) :
              IF i = ScenarioWindow + 1
              THEN /\ report.df[i].is_anomaly
                   /\ report.df[i].deviation_pct.num > 45 * report.df[i].deviation_pct.den
                   /\ report.df[i].deviation_pct.num < 55 * report.df[i].deviation_pct.den
              ELSE ~report.df[i].is_anomaly
    /\ report.op = "alerts" =>
         /\ Len(report.alerts) = 1
         /\ report.alerts[1].idx = ScenarioWindow + 1
         /\ report.alerts[1].current_flow = SpikeFlow
         /\ report.alerts[1].type = "SURGE"
         /\ report.alerts[1].severity = "HIGH"

\* C22 witness: the one alert of the full scenario of ScenarioLen records.
C22_Witness ==
    /\ IsScenario
    /\ Len(flows.series) = ScenarioLen
    /\ report.op = "alerts"
    /\ Len(report.alerts) = 1

\* -------------------------------------------------- generate_newsletter
\* The names include_sections may hold, in the order of their blocks.
DefaultSections ==
    <<"summary", "surge_alerts", "flow_trends", "key_metrics", "recommendations">>
SectionNames == {DefaultSections[i] : i \in 1..Len(DefaultSections)}
TopN == 10                \* alerts[:10] and nlargest(10)

\* include_sections: a list of names (only membership is asked of it), or
\* None when the argument is left out.
SectionList(names) == [given |-> TRUE, names |-> names]
NoSections == [given |-> FALSE, names |-> {}]
IncludeSections == {NoSections} \cup {SectionList(S) : S \in SUBSET SectionNames}

\* A block of the Markdown document: its heading and the lines under it.
Block(section, lines) == [section |-> section, lines |-> lines]
BlockIf(cond, section, lines) == IF cond THEN <<Block(section, lines)>> ELSE <<>>

\* xs[:n]
FirstN(xs, n) == SubSeq(xs, 1, IF Len(xs) < n THEN Len(xs) ELSE n)

\* include_sections or [...]: None and the empty list are both falsy.
EffectiveSections(include_sections) ==
    IF include_sections.given /\ include_sections.names # {}
    THEN include_sections.names
    ELSE SectionNames

\* generate_newsletter(flows, alerts, include_sections): the document as the
\* sequence of its blocks.  The lines are named by what they show; the
\* series is that of one route.
generate_newsletter(series, alerts, include_sections) ==
    LET include == EffectiveSections(include_sections)
        top     == FirstN(alerts, TopN)
    IN <<Block("title", <<"Generated", "Period">>)>>
       \o BlockIf("summary" \in include, "summary", <<"Executive Summary">>)
       \o BlockIf("surge_alerts" \in include /\ alerts # <<>>, "surge_alerts",
                  [k \in 1..Len(top) |-> top[k].idx])
       \o BlockIf("flow_trends" \in include /\ series # <<>>, "flow_trends",
                  <<"route">>)
       \o BlockIf("key_metrics" \in include, "key_metrics",
                  IF series # <<>>
                  THEN <<"Average Flow", "Peak Flow", "Min Flow", "Std Dev">>
                  ELSE <<>>)
       \o BlockIf("recommendations" \in include, "recommendations",
                  <<"Immediate Actions", "Preventive Measures", "Forecasting",
                    "Regional Cooperation">>)
       \o <<Block("data_quality", <<"Data Completeness", "Last Updated",
                                    "Data Sources", "Forecast Confidence">>)>>
       \o <<Block("footer", <<"automated report">>)>>

\* generate_newsletter(entso_data, alerts) on the alerts just detected
GenerateNewsletter(include_sections) ==
    /\ report.op = "alerts"
    /\ report' = [op |-> "newsletter", include_sections |-> include_sections,
                  alerts |-> report.alerts,
                  doc |-> generate_newsletter(flows.series, report.alerts,
                                              include_sections)]
    /\ UNCHANGED <<cache_vars, warmer_vars, conc_vars, flows>>

\* The newsletter page: threshold 20 and the default lookback.
InitNews ==
    /\ InitFlows
    /\ flows.deviation_threshold = AnomalyPct
    /\ flows.hours_lookback = NowHour

NextNews ==
    \/ DetectSurgeAlerts
    \/ \E include_sections \in IncludeSections : GenerateNewsletter(include_sections)

SpecNews == InitNews /\ [][NextNews]_vars

\* The blocks of the document reported that are headed `section`.
Blocks(section) == {k \in 1..Len(report.doc) : report.doc[k].section = section}

\* C23: generate_newsletter does not raise on empty flow records or an empty
\* alert list; the document it returns has the summary and the footer, and
\* every requested section with no data to show (surge_alerts without
\* alerts, flow_trends and key_metrics without flow records) is present
\* with a placeholder under its heading, neither omitted nor left empty.
C23_EmptyInput ==
    (/\ report.op = "newsletter"
     /\ flows.series = <<>> \/ report.alerts = <<>>) =>
        \A include \in {EffectiveSections(report.include_sections)} :
            /\ "summary" \in include => Blocks("summary") # {}
            /\ Blocks("footer") # {}
            /\ \A s \in include :
                 (\/ s = "surge_alerts" /\ report.alerts = <<>>
                  \/ s \in {"flow_trends", "key_metrics"} /\ flows.series = <<>>) =>
                    /\ Blocks(s) # {}
                    /\ \A k \in Blocks(s) : report.doc[k].lines # <<>>

\* The fixed order of the sections of a document.
SectionOrder ==
    <<"summary", "surge_alerts", "flow_trends", "key_metrics", "recommendations",
      "footer">>
OrderOf(section) == CHOOSE i \in 1..Len(SectionOrder) : SectionOrder[i] = section

\* C24: for every subset S of the five section names passed as
\* include_sections, the empty one too, and non-empty flows and alerts, the
\* document contains section s if and only if s is in S, and the sections
\* present are in the order summary, alerts, trends, metrics,
\* recommendations, footer.
C24_SectionToggle ==
    (/\ report.op = "newsletter"
     /\ report.include_sections.given
     /\ flows.series # <<>> /\ report.alerts # <<>>) =>
        /\ \A s \in SectionNames :
             Blocks(s) # {} <=> s \in report.include_sections.names
        /\ \A j, k \in 1..Len(report.doc) :
             (/\ j < k
              /\ report.doc[j].section \in SectionNames \cup {"footer"}
              /\ report.doc[k].section \in SectionNames \cup {"footer"}) =>
                OrderOf(report.doc[j].section) < OrderOf(report.doc[k].section)

\* ------------------------------------- two instances on one cache directory
SharedTTLs == {1, 2}     \* cache_ttl_minutes of the pages' managers (30, 5)

\* CacheManager.get_stats(): the counters, their sum of hits and misses and
\* the hit rate in percent.
get_stats(m) ==
    LET total == stats[m].hits + stats[m].misses IN
    [hits |-> stats[m].hits, misses |-> stats[m].misses,
     expires |-> stats[m].expires, total_requests |-> total,
     hit_rate |-> IF total > 0 THEN Pct(100 * stats[m].hits, total) ELSE Pct(0, 1)]

\* get_stats() reads the counters and changes nothing.
GetStats(m) ==
    /\ mgr[m].backend # "none"
    /\ last' = [NoCall EXCEPT !.op = "get_stats", !.mgr = m,
                              !.result = "return", !.value = "stats"]
    /\ UNCHANGED <<now, mgr, memory_cache, stats, files, redis>>

\* Two pages construct a CacheManager each, with the file backend, the
\* default cache_dir and different TTLs.
InitShared ==
    /\ EmptyStores
    /\ flows = NoFlows /\ report = NoReport
    /\ \E t1, t2 \in SharedTTLs :
          /\ t1 # t2
          /\ mgr = [m \in Managers |-> NewCacheManager(IF m = "m1" THEN t1 ELSE t2,
                                                       "file")]

\* The calls the two instances have counted together.
SharedCalls ==
    stats["m1"].hits + stats["m1"].misses + stats["m1"].expires
      + stats["m2"].hits + stats["m2"].misses + stats["m2"].expires

\* The pages call their managers one call at a time, for one dataset.
NextShared ==
    \/ \E m \in Managers, outcome \in {"t1", Raise},
          force \in BOOLEAN, ttl_minutes \in TTLOverrides :
            /\ SharedCalls < MaxCount
            /\ GetOrFetch(m, "k1", outcome, force, ttl_minutes, "ok", TRUE)
            /\ UNCHANGED <<warmer_vars, flow_vars, conc_vars>>
    \/ \E m \in Managers :
            ClearCache(m, "k1") /\ UNCHANGED <<warmer_vars, flow_vars, conc_vars>>
    \/ \E m \in Managers :
            ClearAll(m) /\ UNCHANGED <<warmer_vars, flow_vars, conc_vars>>
    \/ \E m \in Managers :
            GetStats(m) /\ UNCHANGED <<warmer_vars, flow_vars, conc_vars>>
    \/ Tick /\ UNCHANGED <<warmer_vars, flow_vars, conc_vars>>

SpecShared == InitShared /\ [][NextShared]_vars

\* C25: the counters hits, misses and expires of an instance never decrease
\* under get_or_fetch, clear_cache, clear_all and get_stats: a clear leaves
\* them as they are.
C25_CountersMonotone ==
    [][\A m \in Managers :
          /\ stats'[m].hits >= stats[m].hits
          /\ stats'[m].misses >= stats[m].misses
          /\ stats'[m].expires >= stats[m].expires
          /\ last'.op \in {"clear", "clear_all", "get_stats"} /\ now' = now
               => stats'[m] = stats[m]]_vars

\* C25 witness: an instance with a hit, a miss and an expiration counted has
\* just cleared the whole cache.
C25_Witness ==
    /\ last.op = "clear_all"
    /\ last.removed # {}
    /\ stats[last.mgr].hits > 0
    /\ stats[last.mgr].misses > 0
    /\ stats[last.mgr].expires > 0

\* C29: freshness is decided by the reader: an entry of the shared file
\* store, whichever instance wrote it and under whatever TTL, is served as a
\* hit by a get_or_fetch through an instance (or call) of effective TTL t2 if
\* and only if its age is less than t2.
C29_ReaderDecides ==
    [][(/\ GetStep /\ ~last'.force
        /\ StoredEntry(last'.mgr, last'.key) # None) =>
            \A e \in {StoredEntry(last'.mgr, last'.key)} :
                (now - e.timestamp < SpecifiedTTL(last'.mgr, last'.ttl_minutes))
                  <=> (/\ last'.fetch = "none"
                       /\ last'.result = "return"
                       /\ last'.value = e.data
                       /\ stats'[last'.mgr].hits = stats[last'.mgr].hits + 1)]_vars

\* C30: a get_or_fetch call whose fetch function raises leaves hits and
\* misses as they were, whether it returns the stale payload or re-raises;
\* only expires may have gone up by one before the fetch.  So the
\* total_requests of get_stats (hits + misses) goes up by one exactly in the
\* calls that return a fresh cached value or a freshly fetched one.
C30_FailedFetchCounters ==
    [][GetStep =>
        \A m \in Managers : last'.mgr = m =>
            /\ last'.fetch = Raise =>
                 /\ stats'[m].hits = stats[m].hits
                 /\ stats'[m].misses = stats[m].misses
                 /\ stats'[m].expires - stats[m].expires \in {0, 1}
            /\ get_stats(m)'.total_requests
                 = get_stats(m).total_requests
                     + (IF last'.fetch = "none" \/ last'.fetch \in Payloads
                        THEN 1 ELSE 0)]_vars

\* C30 witness: a call has just returned the stale payload after its fetch
\* function raised, having counted an expiration; it is the second call
\* that returned normally, and hits + misses is 1.
C30_Witness ==
    /\ last.op = "get"
    /\ last.fetch = Raise
    /\ last.result = "return"
    /\ stats[last.mgr].expires = 1
    /\ get_stats(last.mgr).total_requests = 1
    /\ stats[last.mgr].misses = 1

\* --------------------------- interleaved get_or_fetch calls of two instances
\* A call is followed through its positions: "fetching" once fetch_func has
\* been invoked, "store" once it has returned, "dump" once _set_in_cache has
\* opened the .pkl file for writing, which truncates it.
CallFrame(pc, key, data, timestamp, before) ==
    [pc |-> pc, key |-> key, data |-> data, timestamp |-> timestamp,
     before |-> before]

\* The instances other than m that have invoked fetch_func for `key` and
\* not yet completed their write.
InFlight(m, key) ==
    {w \in Managers \ {m} :
        inflight[w].pc \in {"fetching", "store", "dump"} /\ inflight[w].key = key}

\* The position of a call whose lookup found nothing fresh, had get_or_fetch
\* a lock per key: it waits while another call is fetching the key.
AfterLookupSingleFlight(m, key) ==
    IF InFlight(m, key) # {} THEN CallFrame("waiting", key, "none", -1, None)
    ELSE CallFrame("fetching", key, "none", -1, None)

\* The position of a call whose lookup found nothing fresh: it goes on to
\* `data = fetch_func()`.
AfterLookup(m, key) == CallFrame("fetching", key, "none", -1, None)

\* get_or_fetch up to the return of a fresh entry or the invocation of
\* fetch_func.
Begin(m, key, force, ttl_minutes) ==
    /\ mgr[m].backend # "none"
    /\ inflight[m].pc = "idle"
    /\ SharedCalls + Cardinality({w \in Managers : inflight[w].pc # "idle"}) < MaxCount
    /\ force => ttl_minutes = NoneTTL
    /\ \E cached \in {GetFromCache(m, get_cache_key(key), TRUE)},
          found \in {Lookup(m, key, force, ttl_minutes, TRUE)} :
         LET call == [NoCall EXCEPT !.op = "get", !.mgr = m, !.key = key,
                                    !.force = force, !.ttl_minutes = ttl_minutes,
                                    !.result = "return"]
         IN IF found = "fresh"
            THEN /\ CacheHit(m, call, cached)
                 /\ UNCHANGED inflight
            ELSE /\ stats' = [stats EXCEPT ![m].expires =
                                 @ + (IF found = "expired" THEN 1 ELSE 0)]
                 /\ last' = [call EXCEPT !.op = "begin", !.result = "none"]
                 /\ inflight' = [inflight EXCEPT ![m] = AfterLookup(m, key)]
                 /\ UNCHANGED <<memory_cache, files, redis>>
    /\ UNCHANGED <<now, mgr>>

\* fetch_func() returns data.
FetchReturns(m, data) ==
    /\ inflight[m].pc = "fetching"
    /\ inflight' = [inflight EXCEPT ![m].pc = "store", ![m].data = data]
    /\ UNCHANGED cache_vars

\* fetch_func() raises: the handler reads the cache as it is now.
FetchRaisesNow(m) ==
    /\ inflight[m].pc = "fetching"
    /\ \E cached \in {GetFromCache(m, get_cache_key(inflight[m].key), TRUE)} :
         FetchRaises(m, [NoCall EXCEPT !.op = "get", !.mgr = m,
                                       !.key = inflight[m].key,
                                       !.result = "return"], cached, 0)
    /\ inflight' = [inflight EXCEPT ![m] = NoFrame]
    /\ UNCHANGED <<now, mgr>>

\* self._set_in_cache(cache_key, data, datetime.now()) up to
\* open(cache_file, 'wb'): the file is there and empty.
OpenForWrite(m) ==
    /\ inflight[m].pc = "store"
    /\ files' = [files EXCEPT ![get_cache_key(inflight[m].key)] = Corrupt]
    /\ inflight' = [inflight EXCEPT ![m].pc = "dump", ![m].timestamp = now,
                                    ![m].before = files[get_cache_key(inflight[m].key)]]
    /\ UNCHANGED <<now, mgr, memory_cache, stats, redis, last>>

\* pickle.dump(cache_entry, f) and the close of the file; misses += 1;
\* return data
Dump(m) ==
    /\ inflight[m].pc = "dump"
    /\ files' = [files EXCEPT ![get_cache_key(inflight[m].key)] =
                     Entry(inflight[m].data, inflight[m].timestamp)]
    /\ stats' = [stats EXCEPT ![m].misses = @ + 1]
    /\ last' = [NoCall EXCEPT !.op = "get", !.mgr = m, !.key = inflight[m].key,
                              !.fetch = inflight[m].data, !.result = "return",
                              !.value = inflight[m].data]
    /\ inflight' = [inflight EXCEPT ![m] = NoFrame]
    /\ UNCHANGED <<now, mgr, memory_cache, redis>>

\* The calls of the two pages' managers, for one dataset, step by step.
NextConc ==
    \/ \E m \in Managers, force \in BOOLEAN, ttl_minutes \in TTLOverrides :
            Begin(m, "k1", force, ttl_minutes) /\ UNCHANGED <<warmer_vars, flow_vars>>
    \/ \E m \in Managers :
            FetchReturns(m, "t1") /\ UNCHANGED <<warmer_vars, flow_vars>>
    \/ \E m \in Managers :
            FetchRaisesNow(m) /\ UNCHANGED <<warmer_vars, flow_vars>>
    \/ \E m \in Managers :
            OpenForWrite(m) /\ UNCHANGED <<warmer_vars, flow_vars>>
    \/ \E m \in Managers :
            Dump(m) /\ UNCHANGED <<warmer_vars, flow_vars>>
    \/ Tick /\ UNCHANGED <<warmer_vars, flow_vars, conc_vars>>

SpecConc == InitShared /\ [][NextConc]_vars

\* The step is the Begin of a call of instance m, which last' records: the
\* instance leaves "idle" or counts a hit.
BeginStep(m) ==
    /\ inflight[m].pc = "idle"
    /\ last'.op \in {"begin", "get"}
    /\ last'.mgr = m
    /\ inflight'[m].pc # "idle" \/ stats'[m].hits = stats[m].hits + 1

\* The step is the lookup of a non-forced get_or_fetch of instance m.
ReadStep(m) == BeginStep(m) /\ ~last'.force

\* C26: on the file backend shared by two instances a write of key k is
\* atomic: a get_or_fetch that reads k while the other instance is writing
\* over an entry of k finds a whole entry, the previous one or a new one,
\* never a missing or truncated one.
C26_AtomicWrite ==
    [][\A m \in Managers, w \in Managers :
          (/\ ReadStep(m)
           /\ w # m
           /\ inflight[w].pc = "dump"
           /\ inflight[w].key = last'.key
           /\ inflight[w].before \notin {None, Corrupt}) =>
              \* what _get_from_cache hands the reader
              BaseGetFromCache(m, get_cache_key(last'.key)) # None]_vars

\* C27: get_or_fetch has no single-flight guarantee: a call that is forced
\* or finds no fresh entry invokes fetch_func itself, whatever calls of the
\* other instance are in flight for the key, so that two calls for one key
\* can both have invoked fetch_func before either has stored its result.
C27_NoSingleFlight ==
    [][\A m \in Managers :
          (/\ BeginStep(m)
           /\ Lookup(m, last'.key, last'.force, last'.ttl_minutes, TRUE) # "fresh") =>
              /\ inflight'[m].pc = "fetching"
              /\ inflight'[m].key = last'.key]_vars

\* C27 witness: the fetch functions of both instances have been invoked
\* and have returned for the same key, and neither result is stored yet.
C27_Witness ==
    /\ inflight["m1"].pc = "store"
    /\ inflight["m2"].pc = "store"
    /\ inflight["m1"].key = inflight["m2"].key
    /\ files[get_cache_key(inflight["m1"].key)] = None

\* C28: the baseline of detect_surge_alerts is time-based: for every record
\* it is the mean of the flows of the records whose timestamps lie in the
\* trailing window of BaselineHours ending at the record, whatever the
\* sampling interval, and so equals the flow_7day_avg calculate_flow_metrics
\* gives the record.
C28_TimeBasedBaseline ==
    report.op = "alerts" =>
        \A i \in 1..Len(report.df) :
            \A avg \in {flow_7day_avg(report.df, i, TRUE)} :
                /\ ~report.df[i].rolling_avg.nan
                /\ report.df[i].rolling_avg.sum * avg.n
                     = avg.sum * report.df[i].rolling_avg.n
====
